---- MODULE Spec2Model ----
(***************************************************************************)
(* Model of the structural-damage prediction experiment:                   *)
(*   src/run_experiment.py                       main(): the run           *)
(*       controller (splitting, model selection, evaluation) and the       *)
(*       metrics aggregation that follows the runs;                        *)
(*   src/structureDamagePrediction/datahandling.py                         *)
(*       StructuralDamageDataAndMetadataReader.read_data_and_metadata.     *)
(* Dataset entries are identified by their 0-based index; the label of     *)
(* entry i is labels[i + 1].  Real numbers are kept as fractions           *)
(* <<numerator, denominator>>.                                             *)
(***************************************************************************)
EXTENDS Integers, Sequences, FiniteSets, TLC

\* ------------------------------------------------------------------ bounds
\* Largest dataset (number of cases read) the controller is run on.
MaxN == 3
\* Longest (true, predicted) list handed to the aggregator on its own.
MaxPairs == 3
\* Largest epoch budget (args.epochs) the trainer is run with.
MaxEpochs == 202
\* Highest case number a sensor or metadata file may carry.
MaxCase == 3
\* Sensor readings range over -MaxAbsVal .. MaxAbsVal.
MaxAbsVal == 1

\* ------------------------------------------------------- program constants
LEAVE_ONE_OUT == "leave-one-out"
STRATIFY == "stratify"
RANDOM == "random"
SEQUENCE == "sequence"
FOURIER == "fourier"
LSTM == "lstm"
LINEAR == "linear"
KNN == "knn"
DUMMY == "dummy"

Splittings == {LEAVE_ONE_OUT, STRATIFY, RANDOM}
Representations == {SEQUENCE, FOURIER}
Classifiers == {LSTM, LINEAR, KNN, DUMMY}

\* transform_func maps the damage percentage to its index in a 3-element list.
NumClasses == 3
Classes == 0 .. (NumClasses - 1)

\* number_of_runs when the policy is not leave-one-out.
FixedRuns == 3
\* test_perc = 0.20 when the policy is not leave-one-out, as the fraction 1/5.
TestPercDen == 5
\* random_state of train_test_split.
StratifySeed == 5
\* trainer.train(..., min_abs_loss_change=0.0001, patience_epochs=200,
\* sufficient_loss=0.001, ...): losses are counted in units of 0.00005.
MinAbsLossChange == 2
PatienceEpochs == 200
SufficientLoss == 20

VARIABLES
    \* configuration (args) and dataset
    splitting, classification, classifier, representation, labels,
    \* run controller
    pc, err, number_of_runs, iRun, test_instance_idx, train_data, test_data,
    model, test_pos, real_list, predicted_list,
    \* results of train_test_split per random_state (a deterministic function
    \* of its arguments, known only once it has been called)
    split_memo,
    \* the test index set of every run started so far
    held_out,
    \* every call final_model(X_test) made so far (line 231): the run, the model
    \* instance queried, what it had been trained on, the instance passed
    queried,
    \* metrics aggregator
    accuracy, perFoldAcc, avgAcc, conf_matrix,
    \* NeuralNetTrainer.train
    t_pc, n_epochs, epoch, epoch_loss, best_loss, no_improve,
    \* read_data_and_metadata
    r_pc, r_err, sensor_files, metadata_files, file_cnt, raw_data,
    sequence_data, sequence_metadata

cfgVars == <<splitting, classification, classifier, representation, labels>>
runVars == <<number_of_runs, iRun, test_instance_idx, train_data, test_data,
             model, test_pos, split_memo, held_out, queried>>
listVars == <<real_list, predicted_list>>
aggVars == <<accuracy, perFoldAcc, avgAcc, conf_matrix>>
ctlVars == <<cfgVars, pc, err, runVars, listVars, aggVars>>
trVars == <<t_pc, n_epochs, epoch, epoch_loss, best_loss, no_improve>>
rdVars == <<r_pc, r_err, sensor_files, metadata_files, file_cnt, raw_data,
            sequence_data, sequence_metadata>>
vars == <<ctlVars, trVars, rdVars>>

\* --------------------------------------------------------------- helpers
NoErr == [type |-> "none", line |-> 0, allowed |-> {}]
Raise(type, line) == [type |-> type, line |-> line, allowed |-> {}]

NoModel == [kind |-> "none", sklearn |-> FALSE, born |-> -1, trained_on |-> <<>>, fitted |-> FALSE]

\* len(dataset)
DatasetLen == Len(labels)
Indices == 0 .. (DatasetLen - 1)

RECURSIVE SeqSum(_)
SeqSum(s) == IF s = <<>> THEN 0 ELSE Head(s) + SeqSum(Tail(s))

\* math.ceil(a / b) for a >= 0, b > 0
CeilDiv(a, b) == (a + b - 1) \div b

SubsetsOfSize(S, k) == {T \in SUBSET S : Cardinality(T) = k}

\* ------------------------------------------------------- split strategy
\* math.ceil(test_perc * len(dataset)) with test_perc = 0.20
TestSize == CeilDiv(DatasetLen, TestPercDen)

ClassCount(c, T) == Cardinality({i \in T : labels[i + 1] = c})
ClassesPresent == {labels[k] : k \in 1 .. DatasetLen}

\* train_test_split(..., test_size=0.20, shuffle=True, stratify=labels) raises
\* ValueError unless both parts are non-empty, every class has two members
\* and each part can hold one member of every class.
StratifyFeasible ==
    /\ DatasetLen - TestSize >= 1
    /\ \A c \in ClassesPresent : ClassCount(c, Indices) >= 2
    /\ TestSize >= Cardinality(ClassesPresent)
    /\ DatasetLen - TestSize >= Cardinality(ClassesPresent)

\* The test parts a stratified draw can return: TestSize indices, each class
\* within one of its proportional share.
StratifiedTestSets ==
    {T \in SubsetsOfSize(Indices, TestSize) :
        \A c \in ClassesPresent :
            LET d == ClassCount(c, T) * DatasetLen - TestSize * ClassCount(c, Indices)
            IN  d < DatasetLen /\ -d < DatasetLen}

\* random_state handed to train_test_split in run `run`.
\* (Variant: the seed follows the run index.)
SplitSeedPerRun(run) == run
SplitSeed(run) == StratifySeed

\* number_of_runs, predicted_list, real_list (lines 126-132)
NumberOfRuns == IF splitting = LEAVE_ONE_OUT THEN DatasetLen ELSE FixedRuns

SetupRuns ==
    /\ pc = "setup"
    /\ number_of_runs' = NumberOfRuns
    /\ iRun' = 0
    /\ real_list' = <<>>
    /\ predicted_list' = <<>>
    /\ pc' = "loop"
    /\ UNCHANGED <<cfgVars, err, test_instance_idx, train_data, test_data, model,
                   test_pos, split_memo, held_out, queried, aggVars, trVars, rdVars>>

\* test_instance_idx of leave-one-out (line 152)
\* (Variant: always the first instance.)
LeaveOneOutIdxFirst(run) == {0}
LeaveOneOutIdx(run) == {run}

\* lines 134-156: the loop head and the choice of the test indices
SelectPartition ==
    /\ pc = "loop"
    /\ iRun < number_of_runs
    /\ IF splitting = STRATIFY
       THEN IF ~StratifyFeasible
            THEN /\ err' = Raise("ValueError", 143)
                 /\ pc' = "error"
                 /\ UNCHANGED <<test_instance_idx, split_memo, held_out>>
            ELSE \E T \in StratifiedTestSets :
                    /\ SplitSeed(iRun) \in DOMAIN split_memo
                          => T = split_memo[SplitSeed(iRun)]
                    /\ split_memo' = (SplitSeed(iRun) :> T) @@ split_memo
                    /\ test_instance_idx' = T
                    /\ held_out' = Append(held_out, T)
                    /\ pc' = "build"
                    /\ UNCHANGED err
       ELSE IF splitting = LEAVE_ONE_OUT
            THEN /\ test_instance_idx' = LeaveOneOutIdx(iRun)
                 /\ held_out' = Append(held_out, LeaveOneOutIdx(iRun))
                 /\ pc' = "build"
                 /\ UNCHANGED <<err, split_memo>>
            ELSE \E T \in SubsetsOfSize(Indices, TestSize) :
                    /\ test_instance_idx' = T
                    /\ held_out' = Append(held_out, T)
                    /\ pc' = "build"
                    /\ UNCHANGED <<err, split_memo>>
    /\ UNCHANGED <<cfgVars, number_of_runs, iRun, train_data, test_data, model,
                   test_pos, queried, listVars, aggVars, trVars, rdVars>>

\* enumerate(dataset)
IndexSeq == [k \in 1 .. DatasetLen |-> k - 1]

\* lines 159-165
TestData(test) == SelectSeq(IndexSeq, LAMBDA i : i \in test)
\* (Variant: the else of line 164 is lost and every entry goes to train_data.)
TrainDataAll(test) == IndexSeq
TrainData(test) == SelectSeq(IndexSeq, LAMBDA i : i \notin test)

\* lines 158-170: the two subsets and their DataLoaders.  The shuffling
\* DataLoader of line 169 builds a RandomSampler, whose constructor raises
\* ValueError for a list of no samples; nothing else looks at the sizes.
BuildSubsets ==
    /\ pc = "build"
    /\ train_data' = TrainData(test_instance_idx)
    /\ test_data' = TestData(test_instance_idx)
    /\ IF TrainData(test_instance_idx) = <<>>
       THEN /\ err' = Raise("ValueError", 169)
            /\ pc' = "error"
       ELSE /\ pc' = "model"
            /\ UNCHANGED err
    /\ UNCHANGED <<cfgVars, number_of_runs, iRun, test_instance_idx, model,
                   test_pos, split_memo, held_out, queried, listVars, aggVars, trVars, rdVars>>

\* ------------------------------------------------------ model selection
\* modelsLossesAndSupportedRepr (lines 179-186): the tuple stored per kind.
ModelsLossesAndSupportedRepr(kind) ==
    CASE kind = LSTM   -> <<"LSTMClassificationModel", "CrossEntropyLoss", {SEQUENCE}>>
      [] kind = LINEAR -> <<"SimpleLinear", {FOURIER}>>
      [] kind = KNN    -> <<"KNNModel", "None", {FOURIER}>>
      [] kind = DUMMY  -> <<"DummyModel", "None", {FOURIER}>>

\* The supported-representation list of a kind: the last element of its tuple.
SupportedRepr(kind) ==
    ModelsLossesAndSupportedRepr(kind)[Len(ModelsLossesAndSupportedRepr(kind))]

\* isinstance(model, models.SKLearnModel): the one-shot models.
IsSKLearnModel(m) == m.kind \in {"KNNModel", "DummyModel"}

\* A model instance as constructed at lines 179-183 and 196 during run `run`:
\* born is the run of its construction, trained_on the training sets it has
\* been trained or fitted on since, oldest first.
\* (Variant: the instance is constructed once and reused by later runs.)
NewModelShared(kind, run) ==
    IF model.born >= 0
    THEN model
    ELSE [kind |-> kind, sklearn |-> kind \in {"KNNModel", "DummyModel"},
          born |-> run, trained_on |-> <<>>, fitted |-> FALSE]
NewModel(kind, run) ==
    [kind |-> kind, sklearn |-> kind \in {"KNNModel", "DummyModel"}, born |-> run,
     trained_on |-> <<>>, fitted |-> FALSE]

\* lines 178-199
SelectModel ==
    /\ pc = "model"
    /\ IF classification
       THEN LET entry == ModelsLossesAndSupportedRepr(classifier) IN
            IF Len(entry) # 3
            THEN \* model, loss_fn, compat_repr = <a 2-tuple>
                 /\ err' = Raise("ValueError", 191)
                 /\ pc' = "error"
                 /\ UNCHANGED model
            ELSE IF representation \notin entry[3]
                 THEN /\ err' = [type |-> "RuntimeError", line |-> 193,
                                 allowed |-> entry[3]]
                      /\ pc' = "error"
                      /\ UNCHANGED model
                 ELSE /\ model' = NewModel(entry[1], iRun)
                      /\ pc' = "train"
                      /\ UNCHANGED err
       ELSE /\ model' = NewModel("LSTMRegressionModel", iRun)
            /\ pc' = "train"
            /\ UNCHANGED err
    /\ UNCHANGED <<cfgVars, number_of_runs, iRun, test_instance_idx, train_data,
                   test_data, test_pos, split_memo, held_out, queried, listVars, aggVars,
                   trVars, rdVars>>

\* lines 201-220: trainer.train on the train loader, or model.fit on the
\* concatenated batches of the train loader.
TrainOrFit ==
    /\ pc = "train"
    /\ model' = [model EXCEPT !.trained_on = Append(@, train_data), !.fitted = TRUE]
    /\ test_pos' = 0
    /\ pc' = "evaluate"
    /\ UNCHANGED <<cfgVars, err, number_of_runs, iRun, test_instance_idx, train_data,
                   test_data, split_memo, held_out, queried, listVars, aggVars, trVars, rdVars>>

\* lines 226-250, one test instance: the true label is appended first; the
\* regression branch calls .cpu() on the Python number y_pred.item() returned.
Evaluate ==
    /\ pc = "evaluate"
    /\ test_pos < Len(test_data)
    /\ real_list' = Append(real_list, labels[test_data[test_pos + 1] + 1])
    /\ queried' = Append(queried, [run |-> iRun, born |-> model.born,
                                    trained_on |-> model.trained_on,
                                    instance |-> test_data[test_pos + 1]])
    /\ IF classification
       THEN \E y_pred \in Classes :
               /\ predicted_list' = Append(predicted_list, y_pred)
               /\ test_pos' = test_pos + 1
               /\ UNCHANGED <<pc, err>>
       ELSE /\ err' = Raise("AttributeError", 247)
            /\ pc' = "error"
            /\ UNCHANGED <<predicted_list, test_pos>>
    /\ UNCHANGED <<cfgVars, number_of_runs, iRun, test_instance_idx, train_data,
                   test_data, model, split_memo, held_out, aggVars, trVars, rdVars>>

\* line 252 and the next iteration of the for loop
EndRun ==
    /\ pc = "evaluate"
    /\ test_pos = Len(test_data)
    /\ iRun' = iRun + 1
    /\ pc' = "loop"
    /\ UNCHANGED <<cfgVars, err, number_of_runs, test_instance_idx, train_data,
                   test_data, model, test_pos, split_memo, held_out, queried, listVars,
                   aggVars, trVars, rdVars>>

\* --------------------------------------------------- metrics aggregator
NoFraction == <<0, 0>>
NoMatrix == <<>>

\* [real_list[iCnt] == predicted_list[iCnt] for iCnt in range(len(real_list))]
\* (line 261), each comparison counted as 0 or 1 by sum().
\* (Variant: the range stops one short.)
CorrectFlagsShort(real, pred) ==
    [k \in 1 .. (Len(real) - 1) |-> IF real[k] = pred[k] THEN 1 ELSE 0]
CorrectFlags(real, pred) ==
    [k \in 1 .. Len(real) |-> IF real[k] = pred[k] THEN 1 ELSE 0]

\* acc over zip(real_list, predicted_list) (lines 264-271)
PerFoldAcc(real, pred) ==
    [k \in 1 .. (IF Len(real) < Len(pred) THEN Len(real) ELSE Len(pred)) |->
        IF real[k] = pred[k] THEN 1 ELSE 0]

\* np.average: the sum over the number of elements
Average(s) == <<SeqSum(s), Len(s)>>

\* str() of a label
Str(x) == ToString(x)

\* classes = list(map(str, set(real_list))) (line 277)
ClassNames(real) == {Str(real[k]) : k \in 1 .. Len(real)}

\* lines 278-283
EmptyMatrix(real) ==
    [t \in ClassNames(real) |-> [p \in ClassNames(real) |-> 0]]

\* lines 286-287 from pair k on: reading cell [str(true)][str(pred)] raises
\* KeyError when the dictionary of the row has no such key.
RECURSIVE UpdateMatrix(_, _, _, _)
UpdateMatrix(cm, real, pred, k) ==
    IF k > Len(real) \/ k > Len(pred)
    THEN [ok |-> TRUE, cm |-> cm]
    ELSE LET t == Str(real[k])
             p == Str(pred[k])
         IN  IF t \notin DOMAIN cm \/ p \notin DOMAIN cm[t]
             THEN [ok |-> FALSE, cm |-> cm]
             ELSE UpdateMatrix([cm EXCEPT ![t][p] = @ + 1], real, pred, k + 1)

\* lines 254-310, after the last run
Aggregate ==
    /\ pc = "loop"
    /\ iRun >= number_of_runs
    /\ IF ~classification
       THEN \* stats.spearmanr(real_list, predicted_list)
            /\ pc' = "done"
            /\ UNCHANGED <<err, aggVars>>
       ELSE IF Len(real_list) = 0
       THEN \* ... / len(real_list)
            /\ err' = Raise("ZeroDivisionError", 261)
            /\ pc' = "error"
            /\ UNCHANGED aggVars
       ELSE /\ accuracy' = <<SeqSum(CorrectFlags(real_list, predicted_list)),
                             Len(real_list)>>
            /\ perFoldAcc' = PerFoldAcc(real_list, predicted_list)
            /\ avgAcc' = Average(PerFoldAcc(real_list, predicted_list))
            /\ LET upd == UpdateMatrix(EmptyMatrix(real_list), real_list,
                                       predicted_list, 1)
               IN  /\ conf_matrix' = upd.cm
                   /\ IF upd.ok
                      THEN pc' = "done" /\ UNCHANGED err
                      ELSE pc' = "error" /\ err' = Raise("KeyError", 287)
    /\ UNCHANGED <<cfgVars, runVars, listVars, trVars, rdVars>>

\* ------------------------------------------------------------- trainer
\* NeuralNetTrainer.train, as section 4.2 of the specification describes it.
\* Epoch losses, in units of 0.00005: one that is sufficient, two that differ
\* by less than min_abs_loss_change, one far from both.
LossValues == {SufficientLoss, SufficientLoss + 10, SufficientLoss + 11,
               SufficientLoss + 20}
\* best_loss_so_far before the first epoch: farther than any loss from any loss.
NoBestLoss == -1

AbsDiff(a, b) == IF a >= b THEN a - b ELSE b - a

\* |epoch_loss - best_loss_so_far| < min_abs_loss_change
NoImprovement(loss, best) ==
    best # NoBestLoss /\ AbsDiff(loss, best) < MinAbsLossChange

NextNoImprove(loss, best, count) ==
    IF NoImprovement(loss, best) THEN count + 1 ELSE 0
NextBestLoss(loss, best) ==
    IF NoImprovement(loss, best) THEN best ELSE loss

\* The two early-stopping criteria, evaluated after an epoch.
\* (Variant: a loss equal to sufficient_loss does not stop the loop.)
SufficientStrict(loss) == loss < SufficientLoss
Sufficient(loss) == loss <= SufficientLoss
Plateau(count) == count >= PatienceEpochs

\* One epoch of the loop and the checks that follow it.
TrainEpoch ==
    /\ t_pc = "loop"
    /\ epoch < n_epochs
    /\ \E loss \in LossValues :
          /\ epoch' = epoch + 1
          /\ epoch_loss' = loss
          /\ IF Sufficient(loss)
             THEN /\ t_pc' = "sufficient"
                  /\ UNCHANGED <<best_loss, no_improve>>
             ELSE /\ best_loss' = NextBestLoss(loss, best_loss)
                  /\ no_improve' = NextNoImprove(loss, best_loss, no_improve)
                  /\ t_pc' = IF Plateau(NextNoImprove(loss, best_loss, no_improve))
                             THEN "plateau"
                             ELSE "loop"
    /\ UNCHANGED <<n_epochs, ctlVars, rdVars>>

\* The epoch budget is used up.
TrainExhausted ==
    /\ t_pc = "loop"
    /\ epoch >= n_epochs
    /\ t_pc' = "exhausted"
    /\ UNCHANGED <<n_epochs, epoch, epoch_loss, best_loss, no_improve, ctlVars, rdVars>>

\* --------------------------------------------------------------- reader
\* A sensor tensor: the readings of one case, here two of them.
Vals == (0 - MaxAbsVal) .. MaxAbsVal
Tensors == Vals \X Vals

MinOf(S) == CHOOSE m \in S : \A x \in S : m <= x
MaxOf(S) == CHOOSE m \in S : \A x \in S : m >= x

\* x.min(), x.max() of a tensor
TensorMin(x) == MinOf({x[k] : k \in 1 .. Len(x)})
TensorMax(x) == MaxOf({x[k] : k \in 1 .. Len(x)})

\* os.path.isfile(sensor_filepath) and os.path.isfile(metadata_filepath)
\* (Variant: `or` in place of `and`.)
EitherFileExists(n) == n \in sensor_files \/ n \in metadata_files
BothFilesExist(n) == n \in sensor_files /\ n \in metadata_files

\* lines 40-59, one iteration of the while loop: case file_cnt is read and
\* appended, and file_cnt moves on.
ReadCase ==
    /\ r_pc = "reading"
    /\ BothFilesExist(file_cnt)
    /\ \E data \in Tensors :
          sequence_data' = Append(sequence_data, data)
    /\ sequence_metadata' = Append(sequence_metadata, file_cnt)
    /\ file_cnt' = file_cnt + 1
    /\ UNCHANGED <<r_pc, r_err, sensor_files, metadata_files, raw_data, ctlVars, trVars>>

\* line 40 failing: the loop is left.
EndOfCases ==
    /\ r_pc = "reading"
    /\ ~BothFilesExist(file_cnt)
    /\ raw_data' = sequence_data
    /\ r_pc' = "normalize"
    /\ UNCHANGED <<r_err, sensor_files, metadata_files, file_cnt, sequence_data,
                   sequence_metadata, ctlVars, trVars>>

\* line 68
GlobalMin(data) == MinOf({TensorMin(data[k]) : k \in 1 .. Len(data)})
\* line 69: x - min_val
Shifted(data) ==
    [k \in 1 .. Len(data) |->
        [j \in 1 .. Len(data[k]) |-> data[k][j] - GlobalMin(data)]]
\* line 70: the largest value of the shifted sequences, minus min_val again
MaxVal(data) ==
    MaxOf({TensorMax(Shifted(data)[k]) : k \in 1 .. Len(data)}) - GlobalMin(data)
\* line 71: x / max_val, every quotient kept as <<numerator, denominator>>
\* (a float division: a zero denominator gives inf or nan, no exception).
Normalized(data) ==
    [k \in 1 .. Len(data) |->
        [j \in 1 .. Len(data[k]) |-> <<Shifted(data)[k][j], MaxVal(data)>>]]

\* lines 64-73 with normalize=True, as main calls it: min() of no sequences
\* raises ValueError.
Normalize ==
    /\ r_pc = "normalize"
    /\ IF sequence_data = <<>>
       THEN /\ r_err' = Raise("ValueError", 68)
            /\ r_pc' = "error"
            /\ UNCHANGED sequence_data
       ELSE /\ sequence_data' = Normalized(sequence_data)
            /\ r_pc' = "returned"
            /\ UNCHANGED r_err
    /\ UNCHANGED <<sensor_files, metadata_files, file_cnt, raw_data,
                   sequence_metadata, ctlVars, trVars>>

\* ---------------------------------------------------------------- specs
Datasets == UNION {[1 .. n -> Classes] : n \in 1 .. MaxN}

TrainerIdle ==
    /\ t_pc = "idle"
    /\ n_epochs = 0
    /\ epoch = 0
    /\ epoch_loss = 0
    /\ best_loss = 0
    /\ no_improve = 0

ReaderIdle ==
    /\ r_pc = "idle"
    /\ r_err = NoErr
    /\ sensor_files = {}
    /\ metadata_files = {}
    /\ file_cnt = 0
    /\ raw_data = <<>>
    /\ sequence_data = <<>>
    /\ sequence_metadata = <<>>

RunStateInit ==
    /\ err = NoErr
    /\ test_instance_idx = {}
    /\ train_data = <<>>
    /\ test_data = <<>>
    /\ model = NoModel
    /\ test_pos = 0
    /\ split_memo = <<>>
    /\ held_out = <<>>
    /\ queried = <<>>
    /\ accuracy = NoFraction
    /\ perFoldAcc = <<>>
    /\ avgAcc = NoFraction
    /\ conf_matrix = NoMatrix

\* main() after the dataset is built (line 118), for every configuration
\* argparse accepts and every labelled dataset of up to MaxN cases.
Init ==
    /\ splitting \in Splittings
    /\ classification \in BOOLEAN
    /\ classifier \in Classifiers
    /\ representation \in Representations
    /\ labels \in Datasets
    /\ pc = "setup"
    /\ number_of_runs = 0
    /\ iRun = 0
    /\ real_list = <<>>
    /\ predicted_list = <<>>
    /\ RunStateInit
    /\ TrainerIdle
    /\ ReaderIdle

Next ==
    \/ SetupRuns
    \/ SelectPartition
    \/ BuildSubsets
    \/ SelectModel
    \/ TrainOrFit
    \/ Evaluate
    \/ EndRun
    \/ Aggregate

Spec == Init /\ [][Next]_vars

\* The aggregation code on its own, for every pair of equally long lists of
\* up to MaxPairs labels.
PairLists == UNION {[1 .. n -> Classes] : n \in 0 .. MaxPairs}

InitAgg ==
    /\ splitting = RANDOM
    /\ classification \in BOOLEAN
    /\ classifier = KNN
    /\ representation = FOURIER
    /\ labels = <<>>
    /\ pc = "loop"
    /\ number_of_runs = 0
    /\ iRun = 0
    /\ real_list \in PairLists
    /\ predicted_list \in {q \in PairLists : Len(q) = Len(real_list)}
    /\ RunStateInit
    /\ TrainerIdle
    /\ ReaderIdle

NextAgg == Aggregate

SpecAgg == InitAgg /\ [][NextAgg]_vars

ControllerIdle ==
    /\ splitting = LEAVE_ONE_OUT
    /\ classification = TRUE
    /\ classifier = LSTM
    /\ representation = SEQUENCE
    /\ labels = <<>>
    /\ pc = "idle"
    /\ number_of_runs = 0
    /\ iRun = 0
    /\ real_list = <<>>
    /\ predicted_list = <<>>
    /\ RunStateInit

\* trainer.train(...) as main calls it (line 207), for an epoch budget of 0,
\* 1 or MaxEpochs.
InitTrainer ==
    /\ ControllerIdle
    /\ ReaderIdle
    /\ t_pc = "loop"
    /\ n_epochs \in {0, 1, MaxEpochs}
    /\ epoch = 0
    /\ epoch_loss = NoBestLoss
    /\ best_loss = NoBestLoss
    /\ no_improve = 0

NextTrainer == TrainEpoch \/ TrainExhausted

SpecTrainer == InitTrainer /\ [][NextTrainer]_vars

\* read_data_and_metadata on a base directory holding any sensor and metadata
\* files numbered up to MaxCase.
InitRead ==
    /\ ControllerIdle
    /\ TrainerIdle
    /\ r_pc = "reading"
    /\ r_err = NoErr
    /\ sensor_files \in SUBSET (1 .. MaxCase)
    /\ metadata_files \in SUBSET (1 .. MaxCase)
    /\ file_cnt = 1
    /\ raw_data = <<>>
    /\ sequence_data = <<>>
    /\ sequence_metadata = <<>>

NextRead == ReadCase \/ EndOfCases \/ Normalize

SpecRead == InitRead /\ [][NextRead]_vars

\* ================================================================ claims
Occurrences(i, s) == Cardinality({k \in 1 .. Len(s) : s[k] = i})
UnionOf(seq) == UNION {seq[k] : k \in 1 .. Len(seq)}

\* Every run of the for loop has been executed.
RunsFinished == pc # "setup" /\ iRun = number_of_runs
\* train_data and test_data hold the subsets of the latest test index set.
PartitionBuilt == held_out # <<>> /\ pc # "build"
\* The model selection of some run has been executed.
SelectionExecuted ==
    \/ pc \in {"train", "evaluate", "done"}
    \/ iRun > 0
    \/ pc = "error" /\ err.line >= 178
\* The aggregation after the runs has been executed.
AggregatorRan == pc = "done" \/ (pc = "error" /\ err.line >= 254)

\* C1: under leave-one-out number_of_runs is the dataset size N, run i holds
\* out exactly {i}, and once the N runs are over the held-out sets are N
\* pairwise different sets whose union is 0..N-1.
C1_LeaveOneOutCoversDataset ==
    (splitting = LEAVE_ONE_OUT /\ pc # "setup") =>
        /\ number_of_runs = DatasetLen
        /\ Len(held_out) <= DatasetLen
        /\ \A k \in 1 .. Len(held_out) : held_out[k] = {k - 1}
        /\ RunsFinished =>
              /\ Len(held_out) = DatasetLen
              /\ UnionOf(held_out) = Indices
              /\ \A j, k \in 1 .. Len(held_out) :
                    j # k => held_out[j] \cap held_out[k] = {}

C1_Witness ==
    /\ splitting = LEAVE_ONE_OUT
    /\ pc = "done"
    /\ DatasetLen = 3
    /\ held_out = <<{0}, {1}, {2}>>

\* C2: whatever the policy, the subsets built for a run hold every dataset
\* index exactly once, the test subset holding exactly the test indices.
C2_TrainTestPartition ==
    PartitionBuilt =>
        /\ Len(train_data) + Len(test_data) = DatasetLen
        /\ \A i \in Indices :
              /\ Occurrences(i, train_data) + Occurrences(i, test_data) = 1
              /\ Occurrences(i, test_data) = 1 <=> i \in test_instance_idx

C2_Witness ==
    /\ splitting = RANDOM
    /\ pc = "model"
    /\ test_instance_idx = {1}
    /\ train_data = <<0, 2>>
    /\ test_data = <<1>>

\* C3: for both prediction types every evaluated test instance has added one
\* true label and one prediction, so the two lists are equally long and as
\* long as the number of test instances evaluated so far, entry k of each
\* belonging to the k-th test instance in run order, then test order.
RECURSIVE TestedUpTo(_)
TestedUpTo(n) ==
    IF n = 0 THEN <<>> ELSE TestedUpTo(n - 1) \o TestData(held_out[n])
C3_OnePairPerTestInstance ==
    pc # "setup" =>
        /\ Len(real_list) = Len(predicted_list)
        /\ Len(real_list) <= Len(TestedUpTo(Len(held_out)))
        /\ \A k \in 1 .. Len(real_list) :
              real_list[k] = labels[TestedUpTo(Len(held_out))[k] + 1]
        /\ RunsFinished => Len(real_list) = Len(TestedUpTo(Len(held_out)))

\* C4: for either prediction type, once a model kind whose supported
\* representations do not contain the configured one has been selected, main
\* has stopped with the error that names the allowed representations, no model
\* is trained and no result is recorded.
C4_IncompatibleRepresentationRejected ==
    (representation \notin SupportedRepr(classifier) /\ SelectionExecuted) =>
        /\ pc = "error"
        /\ err = [type |-> "RuntimeError", line |-> 193,
                  allowed |-> SupportedRepr(classifier)]
        /\ ~model.fitted
        /\ real_list = <<>>
        /\ predicted_list = <<>>

\* C5: the epoch loop runs at most n_epochs epochs; it has stopped early only
\* after an epoch whose loss is <= sufficient_loss or that took the
\* no-improvement counter to patience_epochs, and it never goes on after such
\* an epoch.
StopCriterionMet == epoch_loss <= SufficientLoss \/ no_improve >= PatienceEpochs
C5_TrainerStopsExactlyOnCriteria ==
    /\ epoch <= n_epochs
    /\ no_improve <= epoch
    /\ t_pc \in {"sufficient", "plateau"} => (epoch >= 1 /\ StopCriterionMet)
    /\ (t_pc \in {"loop", "exhausted"} /\ epoch >= 1) => ~StopCriterionMet
    /\ t_pc = "exhausted" => epoch = n_epochs
    \* the counter: positive only while the loss stays within
    \* min_abs_loss_change of the best loss, 0 right after the best loss moved
    /\ (epoch >= 1 /\ t_pc # "sufficient") =>
          /\ no_improve > 0 =>
                (epoch_loss - best_loss < MinAbsLossChange
                    /\ best_loss - epoch_loss < MinAbsLossChange)
          /\ no_improve = 0 => best_loss = epoch_loss

C5_Witness ==
    /\ t_pc = "plateau"
    /\ epoch < n_epochs
    /\ no_improve = PatienceEpochs
    /\ epoch_loss > SufficientLoss

\* C6: a run whose train subset or test subset is empty has failed with the
\* invalid-split error, and no model has been trained or fitted in it.
C6_DegeneratePartitionRejected ==
    (PartitionBuilt /\ (train_data = <<>> \/ test_data = <<>>)) =>
        /\ pc = "error"
        /\ err.type = "InvalidSplitError"

\* C7: the confusion matrix is built without error for every accumulated
\* list: cell [t][p] is the number of pairs (t, p) and the cells add up to the
\* number of pairs.
MatrixCell(t, p) ==
    IF Str(t) \in DOMAIN conf_matrix /\ Str(p) \in DOMAIN conf_matrix[Str(t)]
    THEN conf_matrix[Str(t)][Str(p)]
    ELSE 0
PairCount(t, p) ==
    Cardinality({k \in 1 .. Len(real_list) :
                    real_list[k] = t /\ predicted_list[k] = p})
C7_ConfusionMatrixTotal ==
    (classification /\ AggregatorRan) =>
        /\ err = NoErr
        /\ \A t, p \in Classes : MatrixCell(t, p) = PairCount(t, p)
        /\ SeqSum([k \in 1 .. (NumClasses * NumClasses) |->
                      MatrixCell((k - 1) \div NumClasses, (k - 1) % NumClasses)])
              = Len(real_list)

\* C8 as stated: for every list, the empty one included, an accuracy is
\* reported and it is (pairs with true = predicted) / (pairs), and so is the
\* average of the per-instance correctness.
Matches ==
    Cardinality({k \in 1 .. Len(real_list) : real_list[k] = predicted_list[k]})
AccuracyReported ==
    /\ err.type # "ZeroDivisionError"
    /\ accuracy[2] > 0
    /\ accuracy[1] * Len(real_list) = Matches * accuracy[2]
    /\ avgAcc[2] > 0
    /\ avgAcc[1] * accuracy[2] = accuracy[1] * avgAcc[2]
RawMin == GlobalMin(raw_data)
RawMax == MaxOf({TensorMax(raw_data[k]) : k \in 1 .. Len(raw_data)})
InUnitInterval(q) ==
    \/ q[2] > 0 /\ 0 <= q[1] /\ q[1] <= q[2]
    \/ q[2] < 0 /\ q[2] <= q[1] /\ q[1] <= 0
IsZero(q) == q[2] # 0 /\ q[1] = 0
IsOne(q) == q[2] # 0 /\ q[1] = q[2]
C9_NormalizedToUnitInterval ==
    (r_pc = "returned" /\ RawMin # RawMax) =>
        \A k \in 1 .. Len(sequence_data) : \A j \in 1 .. Len(sequence_data[k]) :
            /\ InUnitInterval(sequence_data[k][j])
            /\ raw_data[k][j] = RawMin => IsZero(sequence_data[k][j])
            /\ raw_data[k][j] = RawMax => IsOne(sequence_data[k][j])

\* What does hold: with a global minimum of 0 the values are normalised.
C9_NormalizedWhenMinIsZero ==
    (r_pc = "returned" /\ RawMin # RawMax /\ RawMin = 0) =>
        \A k \in 1 .. Len(sequence_data) : \A j \in 1 .. Len(sequence_data[k]) :
            /\ InUnitInterval(sequence_data[k][j])
            /\ raw_data[k][j] = RawMin => IsZero(sequence_data[k][j])
            /\ raw_data[k][j] = RawMax => IsOne(sequence_data[k][j])

\* C10: under stratify every run draws the same test index set, and after the
\* runs the result list holds the labels of that one set once per run.
RECURSIVE Repeat(_, _)
Repeat(s, n) == IF n = 0 THEN <<>> ELSE s \o Repeat(s, n - 1)
LabelsOf(idxs) == [k \in 1 .. Len(idxs) |-> labels[idxs[k] + 1]]
C10_StratifyPartitionSameEveryRun ==
    splitting = STRATIFY =>
        /\ \A j, k \in 1 .. Len(held_out) : held_out[j] = held_out[k]
        /\ (pc = "done" /\ classification) =>
              /\ Len(held_out) = number_of_runs
              /\ real_list = Repeat(LabelsOf(TestData(held_out[1])), number_of_runs)

C10_Witness ==
    /\ splitting = STRATIFY
    /\ pc = "done"
    /\ classification
    /\ DatasetLen = 3
    /\ Len(held_out) = FixedRuns
    /\ held_out[FixedRuns] = {1}

\* C11: the model trained or fitted and then queried in a run is an instance
\* constructed in that run, trained or fitted once, on that run's training
\* subset only, and queried only with that run's test instances; the dataset
\* is the same after every step of every run.
ModelInUse == pc \in {"train", "evaluate"}
C11_ModelOfItsOwnRun ==
    /\ \A k \in 1 .. Len(queried) :
          /\ queried[k].run + 1 <= Len(held_out)
          /\ queried[k].born = queried[k].run
          /\ queried[k].trained_on = <<TrainData(held_out[queried[k].run + 1])>>
          /\ queried[k].instance \in held_out[queried[k].run + 1]
    /\ ModelInUse =>
          /\ model.born = iRun
          /\ \A k \in 1 .. Len(model.trained_on) : model.trained_on[k] = train_data
    /\ pc = "train" => model.trained_on = <<>> /\ ~model.fitted
    /\ pc = "evaluate" => model.trained_on = <<train_data>> /\ model.fitted
C11_NoModelStateCrossesRuns ==
    []C11_ModelOfItsOwnRun /\ [][labels' = labels]_vars

\* The third run of a leave-one-out experiment has queried its own model.
C11_Witness ==
    /\ pc = "done"
    /\ Len(queried) = 3
    /\ queried[1].run = 0
    /\ queried[3].run = 2
    /\ queried[3].born = 2
    /\ queried[3].instance = 2
    /\ queried[3].trained_on = <<<<0, 1>>>>

\* C12: the cases read are 1, 2, ..., k in this order, k + 1 being the smallest
\* number whose sensor file or metadata file is missing; no case beyond it is
\* read, and the two lists returned have k entries, entry i that of case i + 1.
CasePairExists(n) == n \in sensor_files /\ n \in metadata_files
FirstMissingCase ==
    CHOOSE n \in 1 .. (MaxCase + 1) :
        /\ ~CasePairExists(n)
        /\ \A m \in 1 .. (n - 1) : CasePairExists(m)
C12_CasesReadUpToFirstGap ==
    r_pc # "idle" =>
        /\ file_cnt <= FirstMissingCase
        /\ sequence_metadata = [i \in 1 .. (file_cnt - 1) |-> i]
        /\ Len(sequence_data) = file_cnt - 1
        /\ r_pc # "reading" => file_cnt = FirstMissingCase
        /\ r_pc = "returned" =>
              /\ Len(sequence_data) = FirstMissingCase - 1
              /\ Len(sequence_metadata) = FirstMissingCase - 1

\* Case 1 is read, case 2 lacks its metadata file, case 3 has both files and
\* is not read.
C12_Witness ==
    /\ r_pc = "returned"
    /\ sensor_files = {1, 2, 3}
    /\ metadata_files = {1, 3}
    /\ sequence_metadata = <<1>>
    /\ Len(sequence_data) = 1

====
